---- MODULE Spec2Model ----
(***************************************************************************)
(* Model of src/filter_nodes.py: fetch -> filter -> save -> verify.        *)
(*                                                                         *)
(* A Python str is a sequence of one-character strings.  None is the       *)
(* one-element sequence <<"None">>, which no text equals because every     *)
(* element of a text is a single character.                                *)
(***************************************************************************)
EXTENDS Integers, Sequences, FiniteSets, TLC

(***************************************************************************)
(* Bounds of the model.                                                    *)
(***************************************************************************)
\* documents given to filter_nodes directly are made of at most this many pieces
MaxPieces == 3
\* documents a run of main fetches are made of at most this many pieces
MaxFetchPieces == 2
\* consecutive calls of the operation under test (filter passes, save calls)
MaxCalls == 3
\* contents given to save_result directly are made of at most this many pieces
MaxSavePieces == 1

(***************************************************************************)
(* Characters and str methods.                                             *)
(***************************************************************************)
LF == "\n"
CR == "\r"
FF == "\f"
TAB == "\t"
SP == " "

None == <<"None">>

\* Python truthiness of an Optional[str]: None and "" are falsy
Truthy(x) == x # None /\ x # <<>>

\* the characters of the model's alphabet that str.splitlines() breaks at
LineBreaks == {LF, CR, FF}

\* the characters of the model's alphabet that str.strip() removes
Whitespace == {SP, TAB, LF, CR, FF}

UpperCase == <<"A","B","C","D","E","F","G","H","I","J","K","L","M",
               "N","O","P","Q","R","S","T","U","V","W","X","Y","Z">>
LowerCase == <<"a","b","c","d","e","f","g","h","i","j","k","l","m",
               "n","o","p","q","r","s","t","u","v","w","x","y","z">>

\* str.lower() on one character
LowerChar(c) ==
    IF \E i \in 1..Len(UpperCase) : UpperCase[i] = c
    THEN LowerCase[CHOOSE i \in 1..Len(UpperCase) : UpperCase[i] = c]
    ELSE c

\* str.lower()
lower(s) == [i \in 1..Len(s) |-> LowerChar(s[i])]

RECURSIVE lstrip(_)
lstrip(s) ==
    IF s # <<>> /\ Head(s) \in Whitespace THEN lstrip(Tail(s)) ELSE s

RECURSIVE rstrip(_)
rstrip(s) ==
    IF s # <<>> /\ s[Len(s)] \in Whitespace
    THEN rstrip(SubSeq(s, 1, Len(s) - 1))
    ELSE s

\* str.strip()
strip(s) == rstrip(lstrip(s))

\* str.startswith(prefix)
startswith(s, prefix) ==
    Len(s) >= Len(prefix) /\ SubSeq(s, 1, Len(prefix)) = prefix

\* str.splitlines(): a line ends at a line break (CR LF counts as one break);
\* the breaks are dropped; text after the last break is a line only when it
\* is not empty
RECURSIVE SplitFrom(_, _, _, _)
SplitFrom(s, i, cur, acc) ==
    IF i > Len(s)
    THEN IF cur # <<>> THEN Append(acc, cur) ELSE acc
    ELSE IF s[i] \in LineBreaks
         THEN LET width == IF s[i] = CR /\ i < Len(s) /\ s[i + 1] = LF
                           THEN 2 ELSE 1
              IN  SplitFrom(s, i + width, <<>>, Append(acc, cur))
         ELSE SplitFrom(s, i + 1, Append(cur, s[i]), acc)

splitlines(s) == SplitFrom(s, 1, <<>>, <<>>)

\* variant of join: every part is followed by sep, the last one too
RECURSIVE JoinTerminated(_, _)
JoinTerminated(sep, parts) ==
    IF parts = <<>> THEN <<>>
    ELSE parts[1] \o sep \o JoinTerminated(sep, Tail(parts))

\* sep.join(parts)
RECURSIVE join(_, _)
join(sep, parts) ==
    IF parts = <<>> THEN <<>>
    ELSE IF Len(parts) = 1 THEN parts[1]
    ELSE parts[1] \o sep \o join(sep, Tail(parts))

(***************************************************************************)
(* filter_nodes                                                            *)
(***************************************************************************)
\* remove_protocols = ['http=', 'https=', 'socks5=']
remove_protocols ==
    << <<"h","t","t","p","=">>,
       <<"h","t","t","p","s","=">>,
       <<"s","o","c","k","s","5","=">> >>

\* variant of should_remove: the prefix test without .lower()
ShouldRemoveCaseSensitive(line_stripped) ==
    \E k \in 1..Len(remove_protocols) :
        startswith(line_stripped, remove_protocols[k])

\* the inner loop over remove_protocols: should_remove after the loop
should_remove(line_stripped) ==
    \E k \in 1..Len(remove_protocols) :
        startswith(lower(line_stripped), remove_protocols[k])

\* variant of FilterStep: a blank line is skipped instead of kept
FilterStepDropBlank(line, st) ==
    LET line_stripped == strip(line) IN
    IF line_stripped = <<>> THEN st
    ELSE IF should_remove(line_stripped)
    THEN [st EXCEPT !.removed_count = @ + 1]
    ELSE [st EXCEPT !.filtered_lines = Append(@, line)]

\* one iteration of the loop over lines: the pair (filtered_lines,
\* removed_count) after the line has been treated
FilterStep(line, st) ==
    LET line_stripped == strip(line) IN
    IF line_stripped = <<>>
    THEN [st EXCEPT !.filtered_lines = Append(@, line)]
    ELSE IF should_remove(line_stripped)
    THEN [st EXCEPT !.removed_count = @ + 1]
    ELSE [st EXCEPT !.filtered_lines = Append(@, line)]

RECURSIVE FilterLoop(_, _, _)
FilterLoop(ls, i, st) ==
    IF i > Len(ls) THEN st
    ELSE FilterLoop(ls, i + 1, FilterStep(ls[i], st))

\* the locals of filter_nodes when it returns, and the value returned
filter_nodes_run(content) ==
    IF ~Truthy(content)
    THEN [ret |-> None, lines |-> <<>>, filtered_lines |-> <<>>,
          removed_count |-> 0]
    ELSE LET ls == splitlines(content)
             st == FilterLoop(ls, 1, [filtered_lines |-> <<>>,
                                      removed_count |-> 0])
         IN  [ret |-> join(<<LF>>, st.filtered_lines), lines |-> ls,
              filtered_lines |-> st.filtered_lines,
              removed_count |-> st.removed_count]

(***************************************************************************)
(* The output file, save_result and verify_result                          *)
(***************************************************************************)
\* os.path.exists(OUTPUT_FILE) is False
Absent == <<"Absent">>

\* os.linesep of the platform the script's shebang line targets
linesep == <<LF>>

\* f.read() of a file opened with open(OUTPUT_FILE, 'r'): universal newlines,
\* CR LF and CR are read as LF
RECURSIVE read_text(_)
read_text(data) ==
    IF data = <<>> THEN <<>>
    ELSE IF Head(data) = CR
    THEN IF Len(data) >= 2 /\ data[2] = LF
         THEN <<LF>> \o read_text(SubSeq(data, 3, Len(data)))
         ELSE <<LF>> \o read_text(Tail(data))
    ELSE <<Head(data)>> \o read_text(Tail(data))

\* f.write(content) on a file opened with open(OUTPUT_FILE, 'w'): every LF is
\* written as os.linesep
RECURSIVE write_text(_)
write_text(content) ==
    IF content = <<>> THEN <<>>
    ELSE (IF Head(content) = LF THEN linesep ELSE <<Head(content)>>)
         \o write_text(Tail(content))

\* What the file system does during one call: no fault, or the first I/O
\* operation that raises.  A write that raises has put `flushed` characters
\* into the file that open(.., 'w') truncated.
NoFault == [fault |-> "none", flushed |-> 0]

SaveFaults(content) ==
    {NoFault, [fault |-> "read", flushed |-> 0],
     [fault |-> "open", flushed |-> 0]}
    \cup {[fault |-> "write", flushed |-> n] : n \in 0..Len(content)}

VerifyFaults == {NoFault, [fault |-> "read", flushed |-> 0]}

\* variant of save_result: no comparison with the existing content
save_result_always_write(f, content, io) ==
    IF f # Absent /\ io.fault = "read"
    THEN [file |-> f, ret |-> FALSE, raised |-> TRUE]
    ELSE IF io.fault = "open"
    THEN [file |-> f, ret |-> FALSE, raised |-> TRUE]
    ELSE IF io.fault = "write"
    THEN [file |-> SubSeq(write_text(content), 1, io.flushed),
          ret |-> FALSE, raised |-> TRUE]
    ELSE [file |-> write_text(content), ret |-> TRUE, raised |-> FALSE]

\* save_result(content) on the file f under the I/O outcome io:
\*   file    the file when the call returns
\*   ret     the value returned
\*   raised  whether the except branch was taken
save_result(f, content, io) ==
    IF f # Absent /\ io.fault = "read"
    THEN [file |-> f, ret |-> FALSE, raised |-> TRUE]
    ELSE LET existing_content == IF f # Absent THEN read_text(f) ELSE <<>> IN
         IF content = existing_content
         THEN [file |-> f, ret |-> FALSE, raised |-> FALSE]
         ELSE IF io.fault = "open"
         THEN [file |-> f, ret |-> FALSE, raised |-> TRUE]
         ELSE IF io.fault = "write"
         THEN [file |-> SubSeq(write_text(content), 1, io.flushed),
               ret |-> FALSE, raised |-> TRUE]
         ELSE [file |-> write_text(content), ret |-> TRUE, raised |-> FALSE]

\* the test verify_result applies to each line of the file
bad_line(line) ==
    LET line_stripped == strip(line) IN
    /\ line_stripped # <<>>
    /\ LET line_lower == lower(line_stripped) IN
       \/ startswith(line_lower, <<"h","t","t","p","=">>)
       \/ startswith(line_lower, <<"h","t","t","p","s","=">>)
       \/ startswith(line_lower, <<"s","o","c","k","s","5","=">>)

\* verify_result() on the file f under the I/O outcome io: it only reads
verify_result(f, io) ==
    IF f = Absent THEN [ret |-> FALSE, raised |-> FALSE]
    ELSE IF io.fault = "read" THEN [ret |-> FALSE, raised |-> TRUE]
    ELSE LET ls == splitlines(read_text(f))
             bad_lines == SelectSeq(ls, bad_line)
         IN  [ret |-> (bad_lines = <<>>), raised |-> FALSE]

(***************************************************************************)
(* main and the process exit code                                          *)
(***************************************************************************)
\* variants of main_return: main returns what verify_result / save_result did
MainReturnsVerifyResult(save_value, verify_value) == verify_value

MainReturnsSaveResult(save_value, verify_value) == save_value

\* the value main returns once save_result and verify_result have run: both
\* values are dropped (lines 241-251)
main_return(save_value, verify_value) == TRUE

\* exit(0 if success else 1)
exit_code_of(success) == IF success THEN 0 ELSE 1

(***************************************************************************)
(* Input documents                                                         *)
(***************************************************************************)
Pieces ==
    { <<"h","t","t","p","=","1">>,
      <<"H","T","T","P","S","=","e">>,
      <<"s","o","c","k","s","5","=","x">>,
      <<"s","s",":","/","/","a">>,
      <<"h","t","t","p",":">>,
      <<SP>>, <<LF>>, <<CR>> }

RECURSIVE DocsOf(_)
DocsOf(n) ==
    IF n = 0 THEN {<<>>}
    ELSE LET shorter == DocsOf(n - 1)
         IN  shorter \cup {d \o p : d \in shorter, p \in Pieces}

\* "ss://abc\nhttp=1.2.3.4:8080\n\nVMess://xyz\nHTTPS=evil"
ExampleDoc ==
    <<"s","s",":","/","/","a","b","c",LF,
      "h","t","t","p","=","1",".","2",".","3",".","4",":","8","0","8","0",LF,
      LF,
      "V","M","e","s","s",":","/","/","x","y","z",LF,
      "H","T","T","P","S","=","e","v","i","l">>

ExampleKept ==
    << <<"s","s",":","/","/","a","b","c">>,
       <<>>,
       <<"V","M","e","s","s",":","/","/","x","y","z">> >>

\* "\tSocks5=9\f \t\fvless://b\n\n"
FormFeedDoc ==
    <<TAB,"S","o","c","k","s","5","=","9",FF,SP,TAB,FF,
      "v","l","e","s","s",":","/","/","b",LF,LF>>

\* the documents filter_nodes is applied to directly
FilterDocs == DocsOf(MaxPieces) \cup {ExampleDoc, FormFeedDoc}

\* the bodies a fetch can return
FetchDocs == DocsOf(MaxFetchPieces) \cup {ExampleDoc, FormFeedDoc}

\* what OUTPUT_FILE holds when a run starts
InitialFiles ==
    { Absent,
      <<>>,
      <<"s","s",":","/","/","a">>,
      <<"h","t","t","p","=","1",LF,"s","s",":","/","/","a">>,
      <<"s","s",":","/","/","a",CR,LF,"h","t","t","p",":">> }

\* the contents save_result is called with directly
SaveContents == DocsOf(MaxSavePieces)

(***************************************************************************)
(* State                                                                   *)
(***************************************************************************)
VARIABLES
    pc,               \* the stage of main that runs next
    file,             \* OUTPUT_FILE: Absent or its content
    raw_content,      \* main's raw_content
    filtered_content, \* main's filtered_content / the latest filter result
    lines,            \* filter_nodes' lines
    filtered_lines,   \* filter_nodes' filtered_lines
    removed_count,    \* filter_nodes' removed_count
    save_ret,         \* value of the last save_result call
    verify_ret,       \* value of the last verify_result call
    main_ret,         \* value main returned
    exit_code,        \* the process exit code
    file_before,      \* history: the file when save_result was last entered
    file_saved,       \* history: the file when save_result last returned
    initial_file,     \* history: the file before anything ran
    failed,           \* history: the stages that failed
    ran,              \* history: the stages that ran, in order
    arg,              \* the argument of the operation called directly
    prev_result,      \* history: the filter result of the previous pass
    calls,            \* history: number of direct calls made
    writes,           \* history: number of completed file writes
    faults            \* history: number of direct calls in which I/O raised

mainVars == <<pc, raw_content, main_ret, exit_code, failed, ran>>
filterVars == <<filtered_content, lines, filtered_lines, removed_count>>
saveVars == <<file, save_ret, file_before, file_saved, initial_file>>
directVars == <<arg, prev_result, calls, writes, faults>>
vars == <<mainVars, filterVars, saveVars, verify_ret, directVars>>

NotRun == <<"NotRun">>

FilterInit ==
    /\ filtered_content = None
    /\ lines = <<>>
    /\ filtered_lines = <<>>
    /\ removed_count = 0

DirectInit ==
    /\ arg = None
    /\ prev_result = NotRun
    /\ calls = 0
    /\ writes = 0
    /\ faults = 0

MainInit ==
    /\ raw_content = None
    /\ main_ret = NotRun
    /\ exit_code = -1
    /\ failed = {}
    /\ ran = <<>>

(***************************************************************************)
(* Spec: one run of the script (main, then exit)                           *)
(***************************************************************************)
Init ==
    /\ pc = "fetch"
    /\ file \in InitialFiles
    /\ MainInit
    /\ FilterInit
    /\ save_ret = NotRun
    /\ verify_ret = NotRun
    /\ file_before = file
    /\ file_saved = file
    /\ initial_file = file
    /\ DirectInit

\* main line 229-232 with fetch_nodes: the request raises and fetch_nodes
\* returns None
FetchFail ==
    /\ pc = "fetch"
    /\ raw_content' = None
    /\ ran' = Append(ran, "fetch")
    /\ failed' = failed \cup {"fetch"}
    /\ main_ret' = FALSE
    /\ pc' = "exit"
    /\ UNCHANGED <<exit_code, filterVars, saveVars, verify_ret, directVars>>

\* main line 229-232 with fetch_nodes: the request returns a body
FetchOk ==
    /\ pc = "fetch"
    /\ \E content \in FetchDocs :
        /\ raw_content' = content
        /\ ran' = Append(ran, "fetch")
        /\ IF Truthy(content)
           THEN /\ pc' = "filter"
                /\ UNCHANGED <<main_ret, failed>>
           ELSE /\ pc' = "exit"
                /\ main_ret' = FALSE
                /\ failed' = failed \cup {"fetch"}
    /\ UNCHANGED <<exit_code, filterVars, saveVars, verify_ret, directVars>>

\* main line 235-238
Filter ==
    /\ pc = "filter"
    /\ LET r == filter_nodes_run(raw_content) IN
        /\ filtered_content' = r.ret
        /\ lines' = r.lines
        /\ filtered_lines' = r.filtered_lines
        /\ removed_count' = r.removed_count
        /\ ran' = Append(ran, "filter")
        /\ IF Truthy(r.ret)
           THEN /\ pc' = "save"
                /\ UNCHANGED <<main_ret, failed>>
           ELSE /\ pc' = "exit"
                /\ main_ret' = FALSE
                /\ failed' = failed \cup {"filter"}
    /\ UNCHANGED <<raw_content, exit_code, saveVars, verify_ret, directVars>>

\* main line 241-242
Save ==
    /\ pc = "save"
    /\ \E io \in SaveFaults(filtered_content) :
        LET r == save_result(file, filtered_content, io) IN
        /\ file_before' = file
        /\ file' = r.file
        /\ file_saved' = r.file
        /\ save_ret' = r.ret
        /\ UNCHANGED initial_file
        /\ failed' = IF r.raised THEN failed \cup {"save"} ELSE failed
    /\ ran' = Append(ran, "save")
    /\ pc' = "verify"
    /\ UNCHANGED <<raw_content, main_ret, exit_code, filterVars, verify_ret,
                   directVars>>

\* main line 245-251
Verify ==
    /\ pc = "verify"
    /\ \E io \in VerifyFaults :
        LET r == verify_result(file, io) IN
        /\ verify_ret' = r.ret
        /\ failed' = IF r.raised THEN failed \cup {"verify"} ELSE failed
        /\ main_ret' = main_return(save_ret, r.ret)
    /\ ran' = Append(ran, "verify")
    /\ pc' = "exit"
    /\ UNCHANGED <<raw_content, exit_code, filterVars, saveVars, directVars>>

\* line 254-255
Exit ==
    /\ pc = "exit"
    /\ exit_code' = exit_code_of(main_ret)
    /\ pc' = "done"
    /\ UNCHANGED <<raw_content, main_ret, failed, ran, filterVars, saveVars,
                   verify_ret, directVars>>

Next == FetchFail \/ FetchOk \/ Filter \/ Save \/ Verify \/ Exit

Spec == Init /\ [][Next]_vars

(***************************************************************************)
(* SpecFilter: filter_nodes applied to a document, then to its own result  *)
(***************************************************************************)
InitFilter ==
    /\ pc = "direct"
    /\ file = Absent
    /\ MainInit
    /\ FilterInit
    /\ save_ret = NotRun
    /\ verify_ret = NotRun
    /\ file_before = Absent
    /\ file_saved = Absent
    /\ initial_file = Absent
    /\ arg \in FilterDocs
    /\ prev_result = NotRun
    /\ calls = 0
    /\ writes = 0
    /\ faults = 0

FilterPass ==
    /\ pc = "direct"
    /\ calls < MaxCalls
    /\ LET r == filter_nodes_run(IF calls = 0 THEN arg ELSE filtered_content)
       IN /\ filtered_content' = r.ret
          /\ lines' = r.lines
          /\ filtered_lines' = r.filtered_lines
          /\ removed_count' = r.removed_count
    /\ prev_result' = IF calls = 0 THEN NotRun ELSE filtered_content
    /\ calls' = calls + 1
    /\ UNCHANGED <<mainVars, saveVars, verify_ret, arg, writes, faults>>

NextFilter == FilterPass

SpecFilter == InitFilter /\ [][NextFilter]_vars

(***************************************************************************)
(* SpecSave: save_result called repeatedly with the same content           *)
(***************************************************************************)
InitSave ==
    /\ pc = "direct"
    /\ file \in InitialFiles
    /\ MainInit
    /\ FilterInit
    /\ save_ret = NotRun
    /\ verify_ret = NotRun
    /\ file_before = file
    /\ file_saved = file
    /\ initial_file = file
    /\ arg \in SaveContents
    /\ prev_result = NotRun
    /\ calls = 0
    /\ writes = 0
    /\ faults = 0

SaveCall ==
    /\ pc = "direct"
    /\ calls < MaxCalls
    /\ \E io \in SaveFaults(arg) :
        LET r == save_result(file, arg, io) IN
        /\ file_before' = file
        /\ file' = r.file
        /\ file_saved' = r.file
        /\ save_ret' = r.ret
        /\ UNCHANGED initial_file
        /\ writes' = IF r.ret THEN writes + 1 ELSE writes
        /\ faults' = IF r.raised THEN faults + 1 ELSE faults
    /\ calls' = calls + 1
    /\ UNCHANGED <<mainVars, filterVars, verify_ret, arg, prev_result>>

NextSave == SaveCall

SpecSave == InitSave /\ [][NextSave]_vars

(***************************************************************************)
(* Properties                                                              *)
(***************************************************************************)
Range(seq) == {seq[i] : i \in 1..Len(seq)}

\* the line, stripped and lowercased, starts with a denied prefix
StartsDenied(line) ==
    LET l == lower(strip(line)) IN
    \/ startswith(l, <<"h","t","t","p","=">>)
    \/ startswith(l, <<"h","t","t","p","s","=">>)
    \/ startswith(l, <<"s","o","c","k","s","5","=">>)

Blank(line) == strip(line) = <<>>

Kept(line) == Blank(line) \/ ~StartsDenied(line)

NoDeniedLine(text) ==
    \A i \in 1..Len(splitlines(text)) : Kept(splitlines(text)[i])

\* C1: every line of the text filter_nodes returns is blank or, stripped and
\* lowercased, does not start with http=, https= or socks5=.
C1_OutputHasNoDeniedLine ==
    (calls >= 1 /\ filtered_content # None) =>
        /\ NoDeniedLine(filtered_content)
        /\ \A i \in 1..Len(filtered_lines) : Kept(filtered_lines[i])

C1_Witness ==
    /\ calls = 1
    /\ removed_count > 0
    /\ Truthy(filtered_content)
    /\ \E i \in 1..Len(lines) : StartsDenied(lines[i])

\* C2 as stated: a second pass of filter_nodes over its own result returns
\* the identical value and removes nothing.
C2_Original ==
    calls >= 2 => (filtered_content = prev_result /\ removed_count = 0)

\* what a pass over the result r of an earlier pass returns
SecondPassOf(r) ==
    IF ~Truthy(r) THEN None
    ELSE IF r[Len(r)] = LF THEN SubSeq(r, 1, Len(r) - 1)
    ELSE r

\* C2 amended: a second pass removes no line; it returns the identical text
\* when the first result is non-empty and does not end with a newline, drops
\* the final newline when it does, and returns None for an empty result.
C2_SecondPass ==
    calls >= 2 =>
        /\ removed_count = 0
        /\ filtered_content = SecondPassOf(prev_result)

C2_Witness ==
    /\ calls = 2
    /\ Truthy(prev_result)
    /\ prev_result[Len(prev_result)] # LF
    /\ filtered_content = prev_result
    /\ arg # prev_result

\* C3: the kept lines are exactly the input lines that are blank or not
\* denied, verbatim, once each, in input order; the others are counted as
\* removed; the returned text is the kept lines joined with newlines.
C3_KeptLinesInOrder ==
    calls >= 1 =>
        /\ calls = 1 => lines = splitlines(IF Truthy(arg) THEN arg ELSE <<>>)
        /\ filtered_lines = SelectSeq(lines, Kept)
        /\ removed_count = Len(lines) - Len(filtered_lines)
        /\ Truthy(IF calls = 1 THEN arg ELSE prev_result)
              => filtered_content = join(<<LF>>, SelectSeq(lines, Kept))
        /\ (calls = 1 /\ arg = ExampleDoc) =>
              (filtered_lines = ExampleKept /\ removed_count = 2)

C3_Witness ==
    /\ calls = 1
    /\ arg = ExampleDoc
    /\ Len(lines) = 5
    /\ filtered_lines = ExampleKept
    /\ removed_count = 2

C5_Original ==
    calls >= 1 => (save_ret = TRUE <=> file # file_before)

\* the input has only LF line terminators and none at its end
PlainLF(text) ==
    /\ CR \notin Range(text)
    /\ FF \notin Range(text)
    /\ text # <<>> => text[Len(text)] # LF

\* C6 as stated: an input without denied line is returned unchanged with
\* removed count 0, and save_result writes only if the file differed.
C6_Original ==
    ("filter" \in Range(ran) /\ NoDeniedLine(raw_content)) =>
        /\ filtered_content = raw_content
        /\ removed_count = 0
        /\ ("save" \in Range(ran) /\ save_ret = TRUE)
              => file_before # filtered_content

\* C6 amended: for a non-empty input without denied line every input line is
\* kept (removed count 0) and the result is those lines joined with newlines,
\* which is the input itself exactly when the input's only line terminators
\* are newlines and none ends it; save_result then writes only if the file
\* did not already hold that content.
C6_NoDeniedLineInput ==
    ("filter" \in Range(ran) /\ NoDeniedLine(raw_content)) =>
        /\ filtered_lines = splitlines(raw_content)
        /\ removed_count = 0
        /\ filtered_content = join(<<LF>>, splitlines(raw_content))
        /\ filtered_content = raw_content <=> PlainLF(raw_content)
        /\ ("save" \in Range(ran) /\ (save_ret = TRUE \/ file # file_before))
              => file_before # filtered_content

C6_Witness ==
    /\ pc = "done"
    /\ "save" \in Range(ran)
    /\ NoDeniedLine(raw_content)
    /\ filtered_content = raw_content
    /\ removed_count = 0
    /\ save_ret = TRUE
    /\ file = raw_content

\* C7: the exit code is 0 exactly when the fetch succeeded and the filter
\* produced a result, whether or not the file changed; it is 1 when the fetch
\* failed or returned nothing or the filter result is empty or None.
C7_ExitCode ==
    pc = "done" =>
        /\ exit_code \in {0, 1}
        /\ exit_code = 0 <=> (raw_content # None /\ Truthy(filtered_content))
        /\ (~Truthy(raw_content) \/ ~Truthy(filtered_content)) => exit_code = 1

C7_Witness ==
    /\ pc = "done"
    /\ "save" \in Range(ran)
    /\ exit_code = 0
    /\ save_ret = FALSE
    /\ file = initial_file
    /\ "save" \notin failed

\* C8: every failure of a stage reaches the exit code (exit 1) and no later
\* stage runs after a stage has failed.
C8_Original ==
    (pc = "done" /\ failed # {}) =>
        /\ exit_code = 1
        /\ \A i \in 1..Len(ran) : ran[i] \in failed => i = Len(ran)

\* C9: a verification failure does not change what main returns or the exit
\* code, does not prevent or undo the write save_result made, and
\* verify_result never modifies the file.
C9_VerifyFailureIsWarningOnly ==
    "verify" \in Range(ran) =>
        /\ file = file_saved
        /\ verify_ret = FALSE =>
              /\ main_ret = TRUE
              /\ pc = "done" => exit_code = 0
              /\ "save" \in Range(ran)
              /\ save_ret = TRUE => file = write_text(filtered_content)

C9_Witness ==
    /\ pc = "done"
    /\ "verify" \in Range(ran)
    /\ verify_ret = FALSE
    /\ "verify" \notin failed
    /\ file # Absent
    /\ ~NoDeniedLine(read_text(file))
    /\ main_ret = TRUE
    /\ exit_code = 0

\* C10: whenever main returns True the output file exists, holds the
\* filtered text of the run and has no denied line.
C10_Original ==
    (pc = "done" /\ main_ret = TRUE) =>
        /\ file # Absent
        /\ file = filtered_content
        /\ NoDeniedLine(file)
====
